---- MODULE Spec2Model ----
(***************************************************************************)
(* A model of the dtsgenerator-plugin-use-enums transformation             *)
(* (src/index.ts): the schema enum extractor run by preProcess, the enum   *)
(* registry, and the three passes (collectEnums, visit, finalPass) of the  *)
(* tree transformer returned by postProcess.                               *)
(*                                                                         *)
(* Strings are sequences of one-character strings, so that toLowerCase,    *)
(* toPascalCase, join('.') and endsWith are computed character by          *)
(* character as the code computes them.                                    *)
(***************************************************************************)
EXTENDS Integers, Sequences, FiniteSets, TLC

VARIABLES
    schemaDefinedEnums, \* Set<string>                        (index.ts:39)
    enumRegistry,       \* Map<string, string[]>              (index.ts:35)
    enumsByValues,      \* Map<string, EnumInfo>              (index.ts:36)
    enumsByPath,        \* Map<string, EnumInfo>              (index.ts:37)
    processedEnums,     \* Set<string>                        (index.ts:38)
    host,               \* pluginContext: option and inputSchemas
    files,              \* the documents the host still hands to the transformer
    options,            \* the options captured by postProcess, once it was called
    phase,              \* idle, start, collect, visit, done
    sourceFile,         \* the statements of the document being transformed
    calls,              \* registerEnum calls of collectEnums still to be made
    todo,               \* top-level statements still to be visited by visit
    out,                \* statements of the transformed source file
    casingIn,           \* [policy, value]: the arguments of getEnumMember
    casingOut,          \* [done, enumKey, enumValue]: its result
    casingAgain,        \* its result on its own enumValue, under the same policy
    casingMember,       \* [done, member]: the enum member created for the value
    registered,         \* the registerEnum calls made on the registry, in order
    extraction          \* idle, done, or the error that ended preProcess

vars == <<schemaDefinedEnums, enumRegistry, enumsByValues, enumsByPath,
          processedEnums, host, files, options, phase, sourceFile, calls, todo,
          out, casingIn, casingOut, casingAgain, casingMember, registered,
          extraction>>

registryVars == <<schemaDefinedEnums, enumRegistry, enumsByValues,
                  enumsByPath, processedEnums>>
runVars == <<host, files, options, phase, sourceFile, calls, todo, out>>
casingVars == <<casingIn, casingOut, casingAgain, casingMember>>

-----------------------------------------------------------------------------
(* Characters and strings *)

Lowers == <<"a", "b", "c", "d", "e", "f", "g", "h", "i", "j", "k", "l", "m",
            "n", "o", "p", "q", "r", "s", "t", "u", "v", "w", "x", "y", "z">>
Uppers == <<"A", "B", "C", "D", "E", "F", "G", "H", "I", "J", "K", "L", "M",
            "N", "O", "P", "Q", "R", "S", "T", "U", "V", "W", "X", "Y", "Z">>
Digits == <<"0", "1", "2", "3", "4", "5", "6", "7", "8", "9">>

IndexIn(c, alphabet) == CHOOSE i \in 1..Len(alphabet) : alphabet[i] = c
IsIn(c, alphabet) == \E i \in 1..Len(alphabet) : alphabet[i] = c

IsUpper(c) == IsIn(c, Uppers)
IsLower(c) == IsIn(c, Lowers)
IsDigit(c) == IsIn(c, Digits)

\* UTF-16 code unit of a character (Array.prototype.sort without a
\* comparator orders strings by code units).
CharCode(c) ==
    CASE IsDigit(c) -> 47 + IndexIn(c, Digits)
      [] IsUpper(c) -> 64 + IndexIn(c, Uppers)
      [] IsLower(c) -> 96 + IndexIn(c, Lowers)
      [] c = " " -> 32 [] c = "\"" -> 34 [] c = "-" -> 45 [] c = "." -> 46
      [] c = "/" -> 47 [] c = "[" -> 91 [] c = "]" -> 93 [] c = "_" -> 95

\* String.prototype.toUpperCase / toLowerCase on one character.
UpperChar(c) == IF IsLower(c) THEN Uppers[IndexIn(c, Lowers)] ELSE c
LowerChar(c) == IF IsUpper(c) THEN Lowers[IndexIn(c, Uppers)] ELSE c

toUpperCase(s) == [i \in 1..Len(s) |-> UpperChar(s[i])]
toLowerCase(s) == [i \in 1..Len(s) |-> LowerChar(s[i])]

\* a < b in the order of Array.prototype.sort without a comparator.
RECURSIVE StrLess(_, _)
StrLess(a, b) ==
    IF b = <<>> THEN FALSE
    ELSE IF a = <<>> THEN TRUE
    ELSE IF CharCode(Head(a)) # CharCode(Head(b))
         THEN CharCode(Head(a)) < CharCode(Head(b))
    ELSE StrLess(Tail(a), Tail(b))

\* insertion of v into a sorted array, after the elements equal to it
RECURSIVE Insert(_, _)
Insert(v, sorted) ==
    IF sorted = <<>> THEN <<v>>
    ELSE IF StrLess(v, Head(sorted)) THEN <<v>> \o sorted
    ELSE <<Head(sorted)>> \o Insert(v, Tail(sorted))

\* values.sort()
RECURSIVE Sort(_)
Sort(values) ==
    IF values = <<>> THEN <<>> ELSE Insert(Head(values), Sort(Tail(values)))

\* parts.join('.')
RECURSIVE Join(_)
Join(parts) ==
    IF parts = <<>> THEN <<>>
    ELSE IF Len(parts) = 1 THEN parts[1]
    ELSE parts[1] \o <<".">> \o Join(Tail(parts))

\* s.endsWith(suffix)
EndsWith(s, suffix) ==
    /\ Len(suffix) <= Len(s)
    /\ SubSeq(s, Len(s) - Len(suffix) + 1, Len(s)) = suffix

-----------------------------------------------------------------------------
(* Casing: toPascalCase and getEnumMember *)

\* str.split(/[-_]+/).filter(Boolean): the maximal runs of characters other
\* than '-' and '_'.  cur is the run being read.
RECURSIVE SplitWords(_, _)
SplitWords(s, cur) ==
    IF s = <<>> THEN (IF cur = <<>> THEN <<>> ELSE <<cur>>)
    ELSE IF Head(s) \in {"-", "_"}
         THEN (IF cur = <<>> THEN <<>> ELSE <<cur>>) \o SplitWords(Tail(s), <<>>)
    ELSE SplitWords(Tail(s), Append(cur, Head(s)))

\* word.charAt(0).toUpperCase() + word.slice(1).toLowerCase()
Capitalize(word) ==
    IF word = <<>> THEN <<>>
    ELSE <<UpperChar(Head(word))>> \o toLowerCase(Tail(word))

RECURSIVE Concat(_)
Concat(words) ==
    IF words = <<>> THEN <<>> ELSE Head(words) \o Concat(Tail(words))

\* /^[A-Z][a-zA-Z0-9]*$/.test(str)
IsPascalShaped(str) ==
    /\ str # <<>>
    /\ IsUpper(str[1])
    /\ \A i \in 2..Len(str) : IsUpper(str[i]) \/ IsLower(str[i]) \/ IsDigit(str[i])

toPascalCase(str) ==
    IF str = <<>> THEN <<>>
    ELSE IF IsPascalShaped(str) THEN str
    ELSE LET words == SplitWords(str, <<>>)
             joined == Concat([i \in 1..Len(words) |-> Capitalize(words[i])])
         IN  IF joined # <<>> THEN joined
             ELSE <<UpperChar(Head(str))>> \o Tail(str)

\* the character class of hasInvalidChars, over the characters of the model
IsInvalidChar(c) == c \in {" ", "-", ".", "[", "]", "\"", "/"}

hasInvalidChars(value) == \E i \in 1..Len(value) : IsInvalidChar(value[i])

\* the replacement as /[^a-zA-Z_]/g would make it: digits are replaced too
ReplaceIllegalAndDigits(value) ==
    [i \in 1..Len(value) |->
        IF IsUpper(value[i]) \/ IsLower(value[i]) \/ value[i] = "_"
        THEN value[i] ELSE "_"]

\* value.replace(/[^a-zA-Z0-9_]/g, '_')
ReplaceIllegal(value) ==
    [i \in 1..Len(value) |->
        IF IsUpper(value[i]) \/ IsLower(value[i]) \/ IsDigit(value[i]) \/ value[i] = "_"
        THEN value[i] ELSE "_"]

Absent == "undefined"

getEnumMember(consistentEnumCasing, value) ==
    CASE consistentEnumCasing = "value" ->
            [enumKey |-> IF hasInvalidChars(value)
                         THEN <<"\"">> \o value \o <<"\"">> ELSE value,
             enumValue |-> value]
      [] consistentEnumCasing = "upper" ->
            [enumKey |-> toUpperCase(ReplaceIllegal(value)),
             enumValue |-> toUpperCase(ReplaceIllegal(value))]
      [] consistentEnumCasing = "lower" ->
            [enumKey |-> toLowerCase(ReplaceIllegal(value)),
             enumValue |-> toLowerCase(ReplaceIllegal(value))]
      [] consistentEnumCasing = "pascal" ->
            [enumKey |-> toPascalCase(value), enumValue |-> toPascalCase(value)]
      [] OTHER ->
            [enumKey |-> toPascalCase(value), enumValue |-> value]

-----------------------------------------------------------------------------
(* Map: a sequence of entries in insertion order, as a JavaScript Map *)

MapHas(m, k) == \E i \in 1..Len(m) : m[i].key = k
MapGet(m, k) == m[CHOOSE i \in 1..Len(m) : m[i].key = k].val
\* Map.prototype.set: an existing key keeps its position
MapSet(m, k, v) ==
    IF MapHas(m, k)
    THEN [i \in 1..Len(m) |-> IF m[i].key = k THEN [key |-> k, val |-> v] ELSE m[i]]
    ELSE Append(m, [key |-> k, val |-> v])

-----------------------------------------------------------------------------
(* The enum registry *)

\* JSON.stringify(values.sort()): injective on arrays of strings, so the
\* sorted array itself stands for the key.
ValuesKey(values) == Sort(values)

\* [...namespacePath, name].join('.')
FullPath(namespacePath, name) == Join(Append(namespacePath, name))

\* The registry maps written by registerEnum.
Registry(byValues, byPath, registry) ==
    [byValues |-> byValues, byPath |-> byPath, registry |-> registry]

\* registerEnum without `values.sort()`: the values stay as they were written
registerEnumUnsorted(reg, name, values, namespacePath) ==
    LET valuesKey == values
        fullPath == FullPath(namespacePath, name)
        pascalCaseName == toPascalCase(name)
    IN  IF MapHas(reg.byValues, valuesKey)
        THEN Registry(reg.byValues,
                      MapSet(reg.byPath, fullPath, MapGet(reg.byValues, valuesKey)),
                      reg.registry)
        ELSE LET enumInfo == [name |-> name,
                              values |-> values,
                              namespacePath |-> namespacePath,
                              pascalCaseName |-> pascalCaseName,
                              fullPath |-> fullPath]
             IN  Registry(MapSet(reg.byValues, valuesKey, enumInfo),
                          MapSet(reg.byPath, fullPath, enumInfo),
                          MapSet(reg.registry, pascalCaseName, namespacePath))

registerEnum(reg, name, values, namespacePath) ==
    LET valuesKey == ValuesKey(values)
        fullPath == FullPath(namespacePath, name)
        pascalCaseName == toPascalCase(name)
    IN  IF MapHas(reg.byValues, valuesKey)
        THEN Registry(reg.byValues,
                      MapSet(reg.byPath, fullPath, MapGet(reg.byValues, valuesKey)),
                      reg.registry)
        ELSE LET enumInfo == [name |-> name,
                              values |-> Sort(values),
                              namespacePath |-> namespacePath,
                              pascalCaseName |-> pascalCaseName,
                              fullPath |-> fullPath]
             IN  Registry(MapSet(reg.byValues, valuesKey, enumInfo),
                          MapSet(reg.byPath, fullPath, enumInfo),
                          MapSet(reg.registry, pascalCaseName, namespacePath))

\* Multiset equality of two arrays of the same length.
RECURSIVE CountOf(_, _)
CountOf(x, a) ==
    IF a = <<>> THEN 0
    ELSE (IF Head(a) = x THEN 1 ELSE 0) + CountOf(x, Tail(a))

arraysEqual(a, b) ==
    /\ Len(a) = Len(b)
    /\ \A i \in 1..Len(b) : CountOf(b[i], b) <= CountOf(b[i], a)

ComponentsSchemas == <<"c", "o", "m", "p", "o", "n", "e", "n", "t", "s", ".",
                       "s", "c", "h", "e", "m", "a", "s", ".">>
ComponentsResponses == <<"c", "o", "m", "p", "o", "n", "e", "n", "t", "s", ".",
                         "r", "e", "s", "p", "o", "n", "s", "e", "s", ".">>

isSchemaDefinedEnum(defined, name, values) ==
    LET nameLower == toLowerCase(name)
    IN  \/ nameLower \in defined
        \/ (ComponentsSchemas \o nameLower) \in defined
        \/ (ComponentsResponses \o nameLower) \in defined
        \/ \E enumPath \in defined :
              \/ EndsWith(enumPath, <<".">> \o nameLower)
              \/ \E i \in 1..Len(values) :
                    enumPath = nameLower \o <<".">> \o toLowerCase(values[i])

-----------------------------------------------------------------------------
(* Schema values (JSON) and the schema enum extractor *)

JObj(entries) == [k |-> "obj", entries |-> entries]    \* entries: <<[key, val], ...>>
JArr(items) == [k |-> "arr", items |-> items]
JStr(text) == [k |-> "str", text |-> text]
JNum == [k |-> "num"]                                  \* a number or boolean
JNull == [k |-> "null"]
\* the value of an entry that is the object holding the entry itself (or
\* holding the properties object with the entry): a self-referential schema
JSelf == [k |-> "self"]
Deref(val, content) == IF val = JSelf THEN content ELSE val

kType == <<"t", "y", "p", "e">>
kEnum == <<"e", "n", "u", "m">>
kString == <<"s", "t", "r", "i", "n", "g">>
kProperties == <<"p", "r", "o", "p", "e", "r", "t", "i", "e", "s">>
kOneOf == <<"o", "n", "e", "O", "f">>
kAnyOf == <<"a", "n", "y", "O", "f">>

\* typeof x === 'object' && x
IsObject(x) == x.k \in {"obj", "arr"}

\* key in content
HasKey(content, key) ==
    /\ content.k = "obj"
    /\ \E i \in 1..Len(content.entries) : content.entries[i].key = key

\* content[key]; the last entry of that key, as JSON.parse keeps it
GetKey(content, key) ==
    LET hits == {i \in 1..Len(content.entries) : content.entries[i].key = key}
    IN  content.entries[CHOOSE i \in hits : \A j \in hits : j <= i].val

\* Object.entries(x) as far as the walk can tell: the entries of a string
\* are strings and those of other primitives are none, and the walk returns
\* at once on both.
Entries(x) ==
    CASE x.k = "obj" -> x.entries
      [] x.k = "arr" -> [i \in 1..Len(x.items) |->
                            [key |-> <<Digits[i]>>, val |-> x.items[i]]]
      [] OTHER -> <<>>

\* `${keyword}[${i}]` for the i-th (from 0) item
Indexed(keyword, i) == keyword \o <<"[", Digits[i + 1], "]">>

\* p.charAt(0).toUpperCase() + p.slice(1)
CapFirst(p) == IF p = <<>> THEN <<>> ELSE <<UpperChar(Head(p))>> \o Tail(p)

\* path.slice(i), i from 0
SliceFrom(path, i) == SubSeq(path, i + 1, Len(path))

\* the state the extractor writes; threw: an error ended the walk, either
\* a TypeError or, with overflow, the RangeError of an exhausted call stack;
\* depth: the calls of extractSchemaEnums that are active
ExtractState(defined, registry, threw) ==
    [defined |-> defined, registry |-> registry, threw |-> threw,
     overflow |-> FALSE, depth |-> 0]

IsEnumDefinition(content) ==
    /\ HasKey(content, kType)
    /\ HasKey(content, kEnum)
    /\ GetKey(content, kType) = JStr(kString)
    /\ GetKey(content, kEnum).k = "arr"

\* the tokens added for one enum definition before its values are read
PathTokens(path) ==
    LET enumName == path[Len(path)]
    IN  {toLowerCase(enumName), toLowerCase(Join(path))}
        \cup {toLowerCase(Join(SliceFrom(path, i))) :
                i \in {j \in 0..(Len(path) - 1) : Join(SliceFrom(path, j)) # <<>>}}
        \cup {toLowerCase(Join(Append(SliceFrom(path, i), enumName))) :
                i \in {j \in 1..(Len(path) - 1) : Join(SliceFrom(path, j)) # <<>>}}

\* the loop over content.enum: value.toLowerCase() throws on a value that
\* is not a string, after the values before it were added
RECURSIVE ValueTokens(_, _, _)
ValueTokens(enumName, items, st) ==
    IF items = <<>> THEN st
    ELSE IF Head(items).k # "str" THEN [st EXCEPT !.threw = TRUE]
    ELSE ValueTokens(enumName, Tail(items),
            [st EXCEPT !.defined = @ \cup
                {toLowerCase(enumName) \o <<".">> \o toLowerCase(Head(items).text)}])

\* lines 493-532: the enum definition found at path
RecordEnum(content, path, st) ==
    IF ~IsEnumDefinition(content) \/ path = <<>> \/ path[Len(path)] = <<>> THEN st
    ELSE LET enumName == path[Len(path)]
             st1 == [st EXCEPT !.defined = @ \cup PathTokens(path)]
             st2 == ValueTokens(enumName, GetKey(content, kEnum).items, st1)
         IN  IF st2.threw \/ Len(path) < 2 THEN st2
             ELSE [st2 EXCEPT !.registry =
                        MapSet(@, toPascalCase(enumName),
                               <<CapFirst(path[1]), CapFirst(path[2])>>)]

\* the recursive calls of one oneOf item, in the order they are made
OneOfJobs(item, i, path) ==
    <<[path |-> Append(path, Indexed(kOneOf, i)), val |-> item]>>
    \o (IF IsObject(item) /\ HasKey(item, kProperties)
        THEN LET props == Entries(GetKey(item, kProperties))
             IN  [j \in 1..Len(props) |->
                    [path |-> path \o <<Indexed(kOneOf, i) \o <<".">> \o kProperties,
                                        props[j].key>>,
                     val |-> Deref(props[j].val, item)]]
        ELSE <<>>)

RECURSIVE OneOfAll(_, _, _)
OneOfAll(items, i, path) ==
    IF i >= Len(items) THEN <<>>
    ELSE OneOfJobs(items[i + 1], i, path) \o OneOfAll(items, i + 1, path)

\* the recursive calls made for content at path, in order
ChildJobs(content, path) ==
    (IF HasKey(content, kOneOf) /\ GetKey(content, kOneOf).k = "arr"
     THEN OneOfAll(GetKey(content, kOneOf).items, 0, path) ELSE <<>>)
    \o (IF HasKey(content, kAnyOf) /\ GetKey(content, kAnyOf).k = "arr"
        THEN LET items == GetKey(content, kAnyOf).items
             IN  [i \in 1..Len(items) |->
                    [path |-> Append(path, Indexed(kAnyOf, i - 1)), val |-> items[i]]]
        ELSE <<>>)
    \o (LET walked == IF HasKey(content, kProperties)
                         /\ IsObject(GetKey(content, kProperties))
                      THEN Entries(GetKey(content, kProperties))
                      ELSE Entries(content)
        IN  [i \in 1..Len(walked) |->
                [path |-> Append(path, walked[i].key),
                 val |-> Deref(walked[i].val, content)]])

\* the nested calls of extractSchemaEnums the call stack has room for
MaxCallDepth == 8

RECURSIVE extractSchemaEnums(_, _, _)
RECURSIVE ExtractAll(_, _)

extractSchemaEnums(content, path, st) ==
    IF st.threw \/ ~IsObject(content) THEN st
    ELSE IF st.depth >= MaxCallDepth
    THEN [st EXCEPT !.threw = TRUE, !.overflow = TRUE]
    ELSE LET st1 == RecordEnum(content, path, [st EXCEPT !.depth = @ + 1])
             st2 == IF st1.threw THEN st1
                    ELSE ExtractAll(ChildJobs(content, path), st1)
         IN  IF st2.threw THEN st2 ELSE [st2 EXCEPT !.depth = @ - 1]

ExtractAll(jobs, st) ==
    IF jobs = <<>> \/ st.threw THEN st
    ELSE ExtractAll(Tail(jobs), extractSchemaEnums(Head(jobs).val, Head(jobs).path, st))

-----------------------------------------------------------------------------
(* The declaration tree *)

\* type nodes
StringLiteral(text) == [k |-> "lit", text |-> text]          \* "text"
KeywordType == [k |-> "keyword"]                             \* number, string, ...
UnionType(types) == [k |-> "union", types |-> types]
TypeReference(name) == [k |-> "ref", name |-> name]          \* Name
QualifiedReference(parts) == [k |-> "qref", parts |-> parts] \* A.B.Name

\* statements
TypeAlias(name, type) == [k |-> "alias", name |-> name, type |-> type]
PropertySignature(name, isIdentifier, type) ==
    [name |-> name, isIdentifier |-> isIdentifier, type |-> type]
Interface(name, members) == [k |-> "interface", name |-> name, members |-> members]
Namespace(name, body) == [k |-> "namespace", name |-> name, body |-> body]
EnumMember(key, quoted, value) == [key |-> key, quoted |-> quoted, value |-> value]
EnumDeclaration(name, members, isConst) ==
    [k |-> "enum", name |-> name, members |-> members, isConst |-> isConst]

\* the test without `stringLiterals.length > 0`: an empty union passes
IsStringUnionOrEmpty(type) ==
    /\ type.k = "union"
    /\ \A i \in 1..Len(type.types) : type.types[i].k = "lit"

\* typeNode.types.filter(string literal).length === typeNode.types.length
\* && stringLiterals.length > 0, for a union type node
IsStringUnion(type) ==
    /\ type.k = "union"
    /\ \A i \in 1..Len(type.types) : type.types[i].k = "lit"
    /\ Len(type.types) > 0

\* stringLiterals.map(literal => literal.text)
LiteralValues(type) == [i \in 1..Len(type.types) |-> type.types[i].text]

-----------------------------------------------------------------------------
(* First pass: collectEnums, as the registerEnum calls it makes, in order *)

Call(name, values, namespacePath, fromEnum) ==
    [name |-> name, values |-> values, namespacePath |-> namespacePath,
     fromEnum |-> fromEnum]

\* options.enumStrategy ?? 'schema'
EnumStrategyOf(opts) ==
    IF opts.enumStrategy = Absent THEN "schema" ELSE opts.enumStrategy

\* lines 108-128: a property signature
CollectProperty(prop, namespacePath, enumStrategy) ==
    IF /\ prop.type.k = "union"
       /\ enumStrategy = "all"
       /\ IsStringUnion(prop.type)
       /\ prop.isIdentifier
    THEN <<Call(prop.name, LiteralValues(prop.type), namespacePath, FALSE)>>
    ELSE <<>>

RECURSIVE CollectMembers(_, _, _)
CollectMembers(members, namespacePath, enumStrategy) ==
    IF members = <<>> THEN <<>>
    ELSE CollectProperty(Head(members), namespacePath, enumStrategy)
         \o CollectMembers(Tail(members), namespacePath, enumStrategy)

RECURSIVE collectEnums(_, _, _, _)
RECURSIVE CollectStatements(_, _, _, _)

\* collectEnums(node, namespacePath) for a statement.  A namespace is walked
\* twice: its body with newPath (line 89), then by the trailing
\* ts.forEachChild(node, ...) with namespacePath (line 147).
collectEnums(node, namespacePath, enumStrategy, defined) ==
    CASE node.k = "namespace" ->
            CollectStatements(node.body, Append(namespacePath, node.name),
                              enumStrategy, defined)
            \o CollectStatements(node.body, namespacePath, enumStrategy, defined)
      [] node.k = "alias" ->
            IF /\ IsStringUnion(node.type)
               /\ \/ enumStrategy = "all"
                  \/ isSchemaDefinedEnum(defined, node.name, LiteralValues(node.type))
            THEN <<Call(node.name, LiteralValues(node.type), namespacePath, FALSE)>>
            ELSE <<>>
      [] node.k = "interface" ->
            CollectMembers(node.members, namespacePath, enumStrategy)
      [] node.k = "enum" ->
            IF Len(node.members) > 0
            THEN <<Call(node.name,
                        [i \in 1..Len(node.members) |-> node.members[i].value],
                        namespacePath, TRUE)>>
            ELSE <<>>

CollectStatements(statements, namespacePath, enumStrategy, defined) ==
    IF statements = <<>> THEN <<>>
    ELSE collectEnums(Head(statements), namespacePath, enumStrategy, defined)
         \o CollectStatements(Tail(statements), namespacePath, enumStrategy, defined)

\* one call of the first pass applied to the registry maps
ApplyCall(reg, call) ==
    LET r == registerEnum(reg, call.name, call.values, call.namespacePath)
    IN  IF call.fromEnum /\ ~MapHas(r.registry, call.name)
        THEN Registry(r.byValues, r.byPath,
                      MapSet(r.registry, call.name, call.namespacePath))
        ELSE r

-----------------------------------------------------------------------------
(* Second pass: visit *)

\* what visit reads and never writes: the two indexes, the schema-defined
\* names and the options
Context(byValues, byPath, defined, opts) ==
    [byValues |-> byValues, byPath |-> byPath, defined |-> defined, opts |-> opts]

\* what visit writes
VisitState(processed, registry) == [processed |-> processed, registry |-> registry]

\* memberKey.substring(1, memberKey.length - 1); substring swaps its
\* arguments when the first is the larger
KeyWithoutQuotes(memberKey) ==
    IF Len(memberKey) = 1 THEN memberKey ELSE SubSeq(memberKey, 2, Len(memberKey) - 1)

\* lines 169-185 and 253-269: one enum member
CreateEnumMember(consistentEnumCasing, value) ==
    LET member == getEnumMember(consistentEnumCasing, value)
    IN  IF member.enumKey # <<>> /\ Head(member.enumKey) = "\""
        THEN EnumMember(KeyWithoutQuotes(member.enumKey), TRUE, member.enumValue)
        ELSE EnumMember(member.enumKey, FALSE, member.enumValue)

\* if (options.constEnums) modifiers.push(const)
HasConstModifier(opts) == opts.constEnums = "true"

\* lines 169-196: the declaration emitted on entering a namespace
NamespaceEnumDeclaration(enumInfo, opts) ==
    EnumDeclaration(enumInfo.pascalCaseName,
                    [i \in 1..Len(enumInfo.values) |->
                        CreateEnumMember(opts.consistentEnumCasing, enumInfo.values[i])],
                    HasConstModifier(opts))

\* the in-place declaration as it would be built if the const modifier were
\* pushed only at the namespace site
AliasEnumDeclarationExportOnly(enumInfo, opts) ==
    EnumDeclaration(enumInfo.pascalCaseName,
                    [i \in 1..Len(enumInfo.values) |->
                        CreateEnumMember(opts.consistentEnumCasing, enumInfo.values[i])],
                    FALSE)

\* lines 253-280: the declaration that replaces a type alias in place
AliasEnumDeclaration(enumInfo, opts) ==
    EnumDeclaration(enumInfo.pascalCaseName,
                    [i \in 1..Len(enumInfo.values) |->
                        CreateEnumMember(opts.consistentEnumCasing, enumInfo.values[i])],
                    HasConstModifier(opts))

\* createQualifiedName wrapped in a type reference node
createQualifiedName(namespacePath, enumName) ==
    IF namespacePath = <<>> THEN TypeReference(enumName)
    ELSE QualifiedReference(Append(namespacePath, enumName))

\* lines 311-332, 345-364, 376-383: the reference to a canonical enum
EnumReference(enumInfo, currentNamespacePath) ==
    LET needsQualifiedReference ==
            ~arraysEqual(enumInfo.namespacePath, currentNamespacePath)
    IN  IF needsQualifiedReference /\ Len(enumInfo.namespacePath) > 0
        THEN createQualifiedName(enumInfo.namespacePath, enumInfo.pascalCaseName)
        ELSE TypeReference(enumInfo.pascalCaseName)

\* lines 369-403 on a type node: qualified and simple type references, and
\* visitEachChild on the rest
RECURSIVE VisitType(_, _, _, _)
VisitType(type, currentNamespacePath, ctx, registry) ==
    CASE type.k = "qref" ->
            IF MapHas(ctx.byPath, Join(type.parts))
            THEN EnumReference(MapGet(ctx.byPath, Join(type.parts)), currentNamespacePath)
            ELSE type
      [] type.k = "ref" ->
            IF /\ MapHas(registry, type.name)
               /\ ~arraysEqual(MapGet(registry, type.name), currentNamespacePath)
            THEN createQualifiedName(MapGet(registry, type.name), type.name)
            ELSE type
      [] type.k = "union" ->
            UnionType([i \in 1..Len(type.types) |->
                        VisitType(type.types[i], currentNamespacePath, ctx, registry)])
      [] OTHER -> type

\* the property visit that drops the qualifier of a qualified reference it
\* does not find in enumsByPath
VisitPropertyUnqualifying(prop, currentNamespacePath, ctx, registry) ==
    IF /\ prop.type.k = "union"
       /\ IsStringUnion(prop.type)
       /\ MapHas(ctx.byValues, ValuesKey(LiteralValues(prop.type)))
    THEN PropertySignature(prop.name, prop.isIdentifier,
            EnumReference(MapGet(ctx.byValues, ValuesKey(LiteralValues(prop.type))),
                          currentNamespacePath))
    ELSE IF prop.type.k = "qref" /\ ~MapHas(ctx.byPath, Join(prop.type.parts))
    THEN PropertySignature(prop.name, prop.isIdentifier,
            TypeReference(prop.type.parts[Len(prop.type.parts)]))
    ELSE PropertySignature(prop.name, prop.isIdentifier,
            VisitType(prop.type, currentNamespacePath, ctx, registry))

\* lines 291-367, then visitEachChild: a property signature
VisitProperty(prop, currentNamespacePath, ctx, registry) ==
    IF /\ prop.type.k = "union"
       /\ IsStringUnion(prop.type)
       /\ MapHas(ctx.byValues, ValuesKey(LiteralValues(prop.type)))
    THEN PropertySignature(prop.name, prop.isIdentifier,
            EnumReference(MapGet(ctx.byValues, ValuesKey(LiteralValues(prop.type))),
                          currentNamespacePath))
    ELSE PropertySignature(prop.name, prop.isIdentifier,
            VisitType(prop.type, currentNamespacePath, ctx, registry))

\* lines 164-203: the enums added on entering the namespace newPath, over
\* the entries of enumsByPath from the i-th on
RECURSIVE EnumsToAdd(_, _, _, _)
EnumsToAdd(i, newPath, ctx, vs) ==
    IF i > Len(ctx.byPath) THEN [nodes |-> <<>>, vs |-> vs]
    ELSE LET enumInfo == ctx.byPath[i].val
         IN  IF /\ arraysEqual(enumInfo.namespacePath, newPath)
                /\ enumInfo.fullPath \notin vs.processed
             THEN LET rest == EnumsToAdd(i + 1, newPath, ctx,
                                VisitState(vs.processed \cup {enumInfo.fullPath},
                                           MapSet(vs.registry, enumInfo.pascalCaseName,
                                                  enumInfo.namespacePath)))
                  IN  [nodes |-> <<NamespaceEnumDeclaration(enumInfo, ctx.opts)>>
                                 \o rest.nodes,
                       vs |-> rest.vs]
             ELSE EnumsToAdd(i + 1, newPath, ctx, vs)

RECURSIVE visit(_, _, _, _)
RECURSIVE VisitBody(_, _, _, _)

\* visit(node, currentNamespacePath) for a statement: the node it returns
\* and the registry state it leaves
visit(node, currentNamespacePath, ctx, vs) ==
    CASE node.k = "namespace" ->
            LET newPath == Append(currentNamespacePath, node.name)
                added == EnumsToAdd(1, newPath, ctx, vs)
                body == VisitBody(node.body, newPath, ctx, added.vs)
            IN  [node |-> Namespace(node.name, added.nodes \o body.nodes),
                 vs |-> body.vs]
      [] node.k = "alias" ->
            LET fullPath == FullPath(currentNamespacePath, node.name)
            IN  IF /\ IsStringUnion(node.type)
                   /\ \/ EnumStrategyOf(ctx.opts) = "all"
                      \/ isSchemaDefinedEnum(ctx.defined, node.name,
                                             LiteralValues(node.type))
                   /\ MapHas(ctx.byPath, fullPath)
                   /\ fullPath \notin vs.processed
                THEN LET enumInfo == MapGet(ctx.byPath, fullPath)
                     IN  [node |-> AliasEnumDeclaration(enumInfo, ctx.opts),
                          vs |-> VisitState(vs.processed \cup {fullPath},
                                    MapSet(vs.registry, enumInfo.pascalCaseName,
                                           enumInfo.namespacePath))]
                ELSE [node |-> TypeAlias(node.name,
                                  VisitType(node.type, currentNamespacePath, ctx,
                                            vs.registry)),
                      vs |-> vs]
      [] node.k = "interface" ->
            [node |-> Interface(node.name,
                        [i \in 1..Len(node.members) |->
                            VisitProperty(node.members[i], currentNamespacePath, ctx,
                                          vs.registry)]),
             vs |-> vs]
      [] OTHER -> [node |-> node, vs |-> vs]

\* lines 205-218: the statements of a namespace body; a type alias whose
\* full path is a key of enumsByPath is skipped
VisitBody(statements, newPath, ctx, vs) ==
    IF statements = <<>> THEN [nodes |-> <<>>, vs |-> vs]
    ELSE LET first == visit(Head(statements), newPath, ctx, vs)
             rest == VisitBody(Tail(statements), newPath, ctx, first.vs)
             skipped == /\ first.node.k = "alias"
                        /\ MapHas(ctx.byPath, FullPath(newPath, first.node.name))
         IN  [nodes |-> (IF skipped THEN <<>> ELSE <<first.node>>) \o rest.nodes,
              vs |-> rest.vs]

-----------------------------------------------------------------------------
(* Final pass *)

\* lines 426-466: a property signature
FinalProperty(prop, currentNamespacePath, registry) ==
    IF /\ prop.isIdentifier
       /\ prop.type.k = "ref"
       /\ MapHas(registry, prop.type.name)
    THEN LET enumNamespacePath == MapGet(registry, prop.type.name)
             inSameNamespace == arraysEqual(enumNamespacePath, currentNamespacePath)
         IN  IF \/ inSameNamespace
                \/ /\ Len(currentNamespacePath) > 0
                   /\ Len(enumNamespacePath) > 0
                   /\ currentNamespacePath[1] = enumNamespacePath[1]
             THEN prop
             ELSE PropertySignature(prop.name, prop.isIdentifier,
                        createQualifiedName(enumNamespacePath, prop.type.name))
    ELSE prop

RECURSIVE finalPass(_, _, _)
finalPass(statements, currentNamespacePath, registry) ==
    [i \in 1..Len(statements) |->
        LET node == statements[i]
        IN  CASE node.k = "namespace" ->
                    Namespace(node.name,
                              finalPass(node.body,
                                        Append(currentNamespacePath, node.name),
                                        registry))
              [] node.k = "interface" ->
                    Interface(node.name,
                              [j \in 1..Len(node.members) |->
                                  FinalProperty(node.members[j], currentNamespacePath,
                                                registry)])
              [] OTHER -> node]

-----------------------------------------------------------------------------
(* Inputs: the documents, options and schemas the host supplies *)

MaxStatements == 3   \* statements handed to the transformer, over all documents
MaxFiles == 2        \* documents handed to one transformer

nS == <<"S">>
nP == <<"P">>
nA == <<"A">>
nB == <<"B">>
nC == <<"C">>
nI == <<"I">>

\* "b" | "a"   and   "a" | "b": one value set, written in two orders
UnionBA == UnionType(<<StringLiteral(<<"b">>), StringLiteral(<<"a">>)>>)
UnionAB == UnionType(<<StringLiteral(<<"a">>), StringLiteral(<<"b">>)>>)
\* "a" | "c": another value set
UnionAC == UnionType(<<StringLiteral(<<"a">>), StringLiteral(<<"c">>)>>)
\* "a" | number: not a union of string literals only
UnionMixed == UnionType(<<StringLiteral(<<"a">>), KeywordType>>)

\* a statement and the namespaces that enclose it, outermost first
Item(ns, stmt) == [ns |-> ns, stmt |-> stmt]

\* sibling namespaces A and B: a union named S in each, and a property of
\* each namespace that refers to its S
SiblingItems ==
    { Item(<<nA>>, TypeAlias(nS, UnionBA)),
      Item(<<nA>>, Interface(nI, <<PropertySignature(<<"s">>, TRUE, TypeReference(nS))>>)),
      Item(<<nB>>, TypeAlias(nS, UnionAC)),
      Item(<<nB>>, TypeAlias(nS, UnionAB)),
      Item(<<nB>>, Interface(nI, <<PropertySignature(<<"s">>, TRUE, TypeReference(nS))>>)) }

\* declarations at the root of the document, beside a namespace
RootItems ==
    { Item(<<>>, TypeAlias(nS, UnionBA)),
      Item(<<>>, TypeAlias(nP, UnionAB)),
      Item(<<>>, TypeAlias(nP, UnionMixed)),
      Item(<<>>, Interface(nI, <<PropertySignature(<<"p">>, TRUE, UnionAB)>>)),
      Item(<<>>, Interface(nI, <<PropertySignature(<<"p", "-", "q">>, FALSE, UnionAC)>>)),
      Item(<<nB>>, TypeAlias(nS, UnionAC)) }

\* namespaces two deep: A.B and A.C share their root A, B.A has the names
\* of A.B in the other order; S is declared in A.B, in A.C and at the root
NestedItems ==
    { Item(<<nA, nB>>, TypeAlias(nS, UnionBA)),
      Item(<<nA, nB>>, Interface(nI, <<PropertySignature(<<"s">>, TRUE, TypeReference(nS))>>)),
      Item(<<nA, nC>>, TypeAlias(nS, UnionAC)),
      Item(<<nB, nA>>, Interface(nI, <<PropertySignature(<<"p">>, TRUE, UnionAB)>>)),
      Item(<<>>, TypeAlias(nS, UnionBA)),
      Item(<<nA>>, Interface(nI, <<PropertySignature(<<"s">>, TRUE, TypeReference(nS))>>)) }

IsPrefixOf(p, q) == Len(p) <= Len(q) /\ SubSeq(q, 1, Len(p)) = p

\* the input is valid TypeScript: a name is declared once in a namespace
\* and every type reference names a type alias in scope
WellFormed(items) ==
    /\ \A i, j \in 1..Len(items) :
          (/\ i < j
           /\ items[i].stmt.k = "alias"
           /\ items[j].stmt.k = "alias"
           /\ items[i].ns = items[j].ns) => items[i].stmt.name # items[j].stmt.name
    /\ \A i \in 1..Len(items) :
          items[i].stmt.k = "interface" =>
            \A m \in 1..Len(items[i].stmt.members) :
                LET type == items[i].stmt.members[m].type
                IN  /\ type.k = "ref" =>
                          \E j \in 1..Len(items) :
                              /\ items[j].stmt.k = "alias"
                              /\ items[j].stmt.name = type.name
                              /\ IsPrefixOf(items[j].ns, items[i].ns)
                    /\ type.k = "qref" =>
                          \E j \in 1..Len(items) :
                              /\ items[j].stmt.k = "alias"
                              /\ items[j].stmt.name = type.parts[Len(type.parts)]
                              /\ items[j].ns = SubSeq(type.parts, 1, Len(type.parts) - 1)

\* the declaration tree of a list of items: consecutive items of one
\* namespace share one namespace block
RECURSIVE BuildTree(_)
BuildTree(items) ==
    IF items = <<>> THEN <<>>
    ELSE IF Head(items).ns = <<>>
         THEN <<Head(items).stmt>> \o BuildTree(Tail(items))
    ELSE LET n == Head(Head(items).ns)
             inBlock(i) == items[i].ns # <<>> /\ Head(items[i].ns) = n
             k == CHOOSE c \in 1..Len(items) :
                    /\ \A i \in 1..c : inBlock(i)
                    /\ c < Len(items) => ~inBlock(c + 1)
             inner == [i \in 1..k |-> [ns |-> Tail(items[i].ns), stmt |-> items[i].stmt]]
         IN  <<Namespace(n, BuildTree(inner))>>
             \o BuildTree(SubSeq(items, k + 1, Len(items)))

ItemLists(items, n) == UNION {[1..k -> items] : k \in 1..n}

\* the sequences of documents a host may hand over: up to MaxFiles
\* documents of MaxStatements statements in all, built from items
RECURSIVE Splits(_, _)
Splits(list, n) ==
    {<<BuildTree(list)>>}
    \cup (IF n < 2 THEN {}
          ELSE UNION {{<<BuildTree(SubSeq(list, 1, c))>> \o rest :
                          rest \in Splits(SubSeq(list, c + 1, Len(list)), n - 1)} :
                      c \in 1..(Len(list) - 1)})

RECURSIVE FlatStatements(_, _)
FlatStatements(statements, ns) ==
    IF statements = <<>> THEN <<>>
    ELSE (IF Head(statements).k = "namespace"
          THEN FlatStatements(Head(statements).body, Append(ns, Head(statements).name))
          ELSE <<Item(ns, Head(statements))>>)
         \o FlatStatements(Tail(statements), ns)

FileLists(items) ==
    {fl \in UNION {Splits(list, MaxFiles) : list \in ItemLists(items, MaxStatements)} :
        \A i \in 1..Len(fl) : WellFormed(FlatStatements(fl[i], <<>>))}

\* pluginContext.option
Options(enumStrategy, consistentEnumCasing, constEnums) ==
    [enumStrategy |-> enumStrategy,
     consistentEnumCasing |-> consistentEnumCasing,
     constEnums |-> constEnums]

OptionSet ==
    {Options(s, Absent, c) : s \in {"schema", "all"}, c \in {"true", "false", Absent}}

\* { a: { b: { S: { type: 'string', enum: values } } } }
SchemaOfS(values) ==
    JObj(<<[key |-> <<"a">>, val |->
        JObj(<<[key |-> <<"b">>, val |->
            JObj(<<[key |-> nS, val |->
                JObj(<<[key |-> kType, val |-> JStr(kString)],
                       [key |-> kEnum, val |-> JArr(values)]>>)]>>)]>>)]>>)

\* pluginContext.inputSchemas: the contents of the input schemas
SiblingSchemaLists ==
    { <<SchemaOfS(<<JStr(<<"a">>), JStr(<<"b">>)>>)>> }

SchemaLists ==
    SiblingSchemaLists \cup { <<SchemaOfS(<<JStr(<<"a">>), JStr(<<"p">>)>>)>> }

-----------------------------------------------------------------------------
(* The state machine *)

NoOptions == [made |-> FALSE, opts |-> Options(Absent, Absent, Absent)]
NoMember == [done |-> FALSE, enumKey |-> <<>>, enumValue |-> <<>>]
NoCasing == [policy |-> Absent, value |-> <<>>]
NoEnumMember == [done |-> FALSE, member |-> EnumMember(<<>>, FALSE, <<>>)]

InitWith(fileLists, optionSet, schemaLists) ==
    /\ schemaDefinedEnums = {}
    /\ enumRegistry = <<>>
    /\ enumsByValues = <<>>
    /\ enumsByPath = <<>>
    /\ processedEnums = {}
    /\ host \in [option : optionSet, inputSchemas : schemaLists]
    /\ files \in fileLists
    /\ options = NoOptions
    /\ phase = "idle"
    /\ sourceFile = <<>>
    /\ calls = <<>>
    /\ todo = <<>>
    /\ out = <<>>
    /\ casingIn = NoCasing
    /\ casingOut = NoMember
    /\ casingAgain = NoMember
    /\ casingMember = NoEnumMember
    /\ registered = <<>>
    /\ extraction = "idle"

Init == InitWith(FileLists(SiblingItems), OptionSet, SiblingSchemaLists)

\* preProcess: clears the five collections, then extracts the schema enums
\* of every input schema
RECURSIVE ExtractSchemas(_, _)
ExtractSchemas(schemas, st) ==
    IF schemas = <<>> THEN st
    ELSE ExtractSchemas(Tail(schemas), extractSchemaEnums(Head(schemas), <<>>, st))

PreProcess ==
    /\ phase \in {"idle", "done"}
    /\ LET st == ExtractSchemas(host.inputSchemas, ExtractState({}, <<>>, FALSE))
       IN  /\ schemaDefinedEnums' = st.defined
           /\ enumRegistry' = st.registry
           /\ extraction' = IF st.overflow THEN "RangeError"
                             ELSE IF st.threw THEN "TypeError" ELSE "done"
    /\ enumsByValues' = <<>>
    /\ enumsByPath' = <<>>
    /\ processedEnums' = {}
    /\ UNCHANGED <<runVars, casingVars, registered>>

\* postProcess: captures the options and returns the transformer factory
PostProcess ==
    /\ phase \in {"idle", "done"}
    /\ options' = [made |-> TRUE, opts |-> host.option]
    /\ UNCHANGED <<registryVars, host, files, phase, sourceFile, calls, todo, out,
                   casingVars, registered, extraction>>

\* the transformer is applied to the next document: collectEnums walks it
Begin ==
    /\ phase \in {"idle", "done"}
    /\ options.made
    /\ files # <<>>
    /\ sourceFile' = Head(files)
    /\ files' = Tail(files)
    /\ calls' = CollectStatements(Head(files), <<>>, EnumStrategyOf(options.opts),
                                  schemaDefinedEnums)
    /\ todo' = Head(files)
    /\ out' = <<>>
    /\ phase' = "start"
    /\ UNCHANGED <<registryVars, host, options, casingVars, registered, extraction>>

\* the next registerEnum call of the first pass
Register ==
    /\ phase \in {"start", "collect"}
    /\ calls # <<>>
    /\ LET r == ApplyCall(Registry(enumsByValues, enumsByPath, enumRegistry), Head(calls))
       IN  /\ enumsByValues' = r.byValues
           /\ enumsByPath' = r.byPath
           /\ enumRegistry' = r.registry
    /\ calls' = Tail(calls)
    /\ phase' = "collect"
    /\ UNCHANGED <<schemaDefinedEnums, processedEnums, host, files, options,
                   sourceFile, todo, out, casingVars, registered, extraction>>

\* visit on the next top-level statement of the source file
VisitTop ==
    /\ \/ phase \in {"start", "collect"} /\ calls = <<>>
       \/ phase = "visit"
    /\ todo # <<>>
    /\ LET r == visit(Head(todo), <<>>,
                      Context(enumsByValues, enumsByPath, schemaDefinedEnums,
                              options.opts),
                      VisitState(processedEnums, enumRegistry))
       IN  /\ out' = Append(out, r.node)
           /\ processedEnums' = r.vs.processed
           /\ enumRegistry' = r.vs.registry
    /\ todo' = Tail(todo)
    /\ phase' = "visit"
    /\ UNCHANGED <<schemaDefinedEnums, enumsByValues, enumsByPath, host, files,
                   options, sourceFile, calls, casingVars, registered, extraction>>

\* finalPass on the transformed source file; the transformer returns
FinalPass ==
    /\ phase = "visit"
    /\ todo = <<>>
    /\ out' = finalPass(out, <<>>, enumRegistry)
    /\ phase' = "done"
    /\ UNCHANGED <<registryVars, host, files, options, sourceFile, calls, todo,
                   casingVars, registered, extraction>>

Next ==
    \/ PreProcess
    \/ PostProcess
    \/ Begin
    \/ Register
    \/ VisitTop
    \/ FinalPass

Spec == Init /\ [][Next]_vars

-----------------------------------------------------------------------------
(* Enum member casing on its own: getEnumMember applied to one raw value *)

MaxLen == 3

CasingChars == {"f", "B", "1", " ", "_", "\""}
CasingWords == {<<"f", "o", "o">>, <<"b", "a", "r">>}
WordSeparators == {<<" ">>, <<"-">>, <<"_">>}

\* raw enum values: every string of up to MaxLen characters, and two words
\* with a separator between them
CasingValues ==
    UNION {[1..n -> CasingChars] : n \in 0..MaxLen}
    \cup {w1 \o sep \o w2 : w1 \in CasingWords, sep \in WordSeparators,
                            w2 \in CasingWords}

\* EnumCasing | undefined
CasingPolicies == {"value", "upper", "lower", "pascal", Absent}

InitCasing ==
    /\ schemaDefinedEnums = {}
    /\ enumRegistry = <<>>
    /\ enumsByValues = <<>>
    /\ enumsByPath = <<>>
    /\ processedEnums = {}
    /\ host = [option |-> Options(Absent, Absent, Absent), inputSchemas |-> <<>>]
    /\ files = <<>>
    /\ options = NoOptions
    /\ phase = "idle"
    /\ sourceFile = <<>>
    /\ calls = <<>>
    /\ todo = <<>>
    /\ out = <<>>
    /\ casingIn \in [policy : CasingPolicies, value : CasingValues]
    /\ casingOut = NoMember
    /\ casingAgain = NoMember
    /\ casingMember = NoEnumMember
    /\ registered = <<>>
    /\ extraction = "idle"

\* getEnumMember(consistentEnumCasing, value) is called and returns
GetEnumMember ==
    /\ ~casingOut.done
    /\ LET member == getEnumMember(casingIn.policy, casingIn.value)
       IN  casingOut' = [done |-> TRUE, enumKey |-> member.enumKey,
                         enumValue |-> member.enumValue]
    /\ UNCHANGED <<registryVars, runVars, casingIn, casingAgain, casingMember,
                   registered, extraction>>

\* getEnumMember is called on the value it returned, with the same policy
Renormalize ==
    /\ casingOut.done
    /\ ~casingAgain.done
    /\ LET member == getEnumMember(casingIn.policy, casingOut.enumValue)
       IN  casingAgain' = [done |-> TRUE, enumKey |-> member.enumKey,
                           enumValue |-> member.enumValue]
    /\ UNCHANGED <<registryVars, runVars, casingIn, casingOut, casingMember,
                   registered, extraction>>

\* enumInfo.values.map(...) on one value: the enum member that is emitted
CreateMember ==
    /\ ~casingMember.done
    /\ casingMember' = [done |-> TRUE,
                        member |-> CreateEnumMember(casingIn.policy, casingIn.value)]
    /\ UNCHANGED <<registryVars, runVars, casingIn, casingOut, casingAgain,
                   registered, extraction>>

NextCasing ==
    \/ GetEnumMember
    \/ Renormalize
    \/ CreateMember

SpecCasing == InitCasing /\ [][NextCasing]_vars

-----------------------------------------------------------------------------
(* registerEnum on its own: any sequence of calls on an empty registry *)

MaxCalls == 3

\* source names (two of them with one PascalCase form), unions and
\* namespace paths of the candidates that collectEnums registers
RegisterNames == {nS, <<"s">>}
RegisterValues == {LiteralValues(UnionBA), LiteralValues(UnionAB), LiteralValues(UnionAC)}
RegisterPaths == {<<>>, <<nA>>}

InitRegister ==
    /\ schemaDefinedEnums = {}
    /\ enumRegistry = <<>>
    /\ enumsByValues = <<>>
    /\ enumsByPath = <<>>
    /\ processedEnums = {}
    /\ host = [option |-> Options(Absent, Absent, Absent), inputSchemas |-> <<>>]
    /\ files = <<>>
    /\ options = NoOptions
    /\ phase = "idle"
    /\ sourceFile = <<>>
    /\ calls = <<>>
    /\ todo = <<>>
    /\ out = <<>>
    /\ casingIn = NoCasing
    /\ casingOut = NoMember
    /\ casingAgain = NoMember
    /\ casingMember = NoEnumMember
    /\ registered = <<>>
    /\ extraction = "idle"

\* registerEnum(name, values, namespacePath) is called
RegisterEnum ==
    /\ Len(registered) < MaxCalls
    /\ \E name \in RegisterNames, values \in RegisterValues,
          namespacePath \in RegisterPaths :
            /\ LET r == registerEnum(Registry(enumsByValues, enumsByPath, enumRegistry),
                                     name, values, namespacePath)
               IN  /\ enumsByValues' = r.byValues
                   /\ enumsByPath' = r.byPath
                   /\ enumRegistry' = r.registry
            /\ registered' = Append(registered, Call(name, values, namespacePath, FALSE))
    /\ UNCHANGED <<schemaDefinedEnums, processedEnums, runVars, casingVars,
                   extraction>>

NextRegister == RegisterEnum

SpecRegister == InitRegister /\ [][NextRegister]_vars

-----------------------------------------------------------------------------
(* preProcess on its own: schemas of any shape *)

Entry(key, val) == [key |-> key, val |-> val]

\* what may stand where an enum definition is expected: well-formed ones,
\* ones with a field missing or of another type, primitives, null, an
\* array, and the enclosing object itself
SchemaNodes ==
    { JObj(<<Entry(kType, JStr(kString)),
             Entry(kEnum, JArr(<<JStr(<<"a">>), JStr(<<"b">>)>>))>>),
      JObj(<<Entry(kType, JStr(kString)),
             Entry(kEnum, JArr(<<JStr(<<"a">>), JNull>>))>>),
      JObj(<<Entry(kType, JStr(kString)), Entry(kEnum, JArr(<<>>))>>),
      JObj(<<Entry(kType, JStr(kString)), Entry(kEnum, JStr(<<"a">>))>>),
      JObj(<<Entry(kType, JNum), Entry(kEnum, JArr(<<JStr(<<"a">>)>>))>>),
      JObj(<<Entry(kEnum, JArr(<<JStr(<<"a">>), JStr(<<"b">>)>>))>>),
      JObj(<<Entry(kType, JStr(kString))>>),
      JObj(<<>>),
      JArr(<<>>),
      JStr(<<"a">>),
      JNum,
      JNull,
      JSelf }

\* the places of a schema in which the node sits under the key S
SchemasAround(node) ==
    { JObj(<<Entry(nS, node)>>),
      JObj(<<Entry(<<"a">>, JObj(<<Entry(<<"b">>, JObj(<<Entry(nS, node)>>))>>))>>),
      JObj(<<Entry(kProperties, JObj(<<Entry(nS, node)>>))>>),
      JObj(<<Entry(kProperties, JObj(<<>>)),
             Entry(<<"d">>, JObj(<<Entry(nS, node)>>))>>),
      JObj(<<Entry(kProperties, JNull), Entry(nS, node)>>),
      JObj(<<Entry(kOneOf, JArr(<<JObj(<<Entry(kProperties,
                                            JObj(<<Entry(nS, node)>>))>>)>>))>>),
      JObj(<<Entry(kAnyOf, JArr(<<JObj(<<Entry(nS, node)>>)>>))>>),
      JObj(<<Entry(kOneOf, JNull), Entry(kAnyOf, JStr(<<"a">>)),
             Entry(nS, node)>>),
      JArr(<<JObj(<<Entry(nS, node)>>)>>) }

ExtractSchemaLists == {<<schema>> : schema \in UNION {SchemasAround(node) : node \in SchemaNodes}}

InitExtract ==
    /\ schemaDefinedEnums = {}
    /\ enumRegistry = <<>>
    /\ enumsByValues = <<>>
    /\ enumsByPath = <<>>
    /\ processedEnums = {}
    /\ host \in [option : {Options(Absent, Absent, Absent)},
                 inputSchemas : ExtractSchemaLists]
    /\ files = <<>>
    /\ options = NoOptions
    /\ phase = "idle"
    /\ sourceFile = <<>>
    /\ calls = <<>>
    /\ todo = <<>>
    /\ out = <<>>
    /\ casingIn = NoCasing
    /\ casingOut = NoMember
    /\ casingAgain = NoMember
    /\ casingMember = NoEnumMember
    /\ registered = <<>>
    /\ extraction = "idle"

NextExtract == PreProcess

SpecExtract == InitExtract /\ [][NextExtract]_vars

\* unions of no member and of one member, at the root and in a namespace
nE == <<"E">>
UnionEmpty == UnionType(<<>>)
UnionA == UnionType(<<StringLiteral(<<"a">>)>>)

EdgeItems ==
    { Item(<<>>, TypeAlias(nE, UnionEmpty)),
      Item(<<>>, TypeAlias(nS, UnionA)),
      Item(<<nA>>, TypeAlias(nE, UnionEmpty)),
      Item(<<nA>>, TypeAlias(nS, UnionA)) }

SpecEdge == InitWith(FileLists(EdgeItems), OptionSet, SiblingSchemaLists) /\ [][Next]_vars

\* unions whose raw values differ only in letter case, or only in a
\* character that is not legal in an identifier
UnionCase == UnionType(<<StringLiteral(<<"a">>), StringLiteral(<<"A">>)>>)
UnionPunct == UnionType(<<StringLiteral(<<"a", " ", "b">>), StringLiteral(<<"a", ".", "b">>)>>)

KeyItems ==
    { Item(<<>>, TypeAlias(nS, UnionCase)),
      Item(<<>>, TypeAlias(nP, UnionBA)),
      Item(<<nA>>, TypeAlias(nS, UnionCase)),
      Item(<<nA>>, TypeAlias(nP, UnionPunct)) }

\* enumStrategy 'all' with every value of consistentEnumCasing
KeyOptionSet == {Options("all", casing, Absent) : casing \in CasingPolicies}

SpecKeys == InitWith(FileLists(KeyItems), KeyOptionSet, SiblingSchemaLists) /\ [][Next]_vars

\* qualified references, made in namespaces A and B, to the aliases of
\* namespace A, one of which is no union; a property of A has the name of
\* that alias
QualifiedItems ==
    { Item(<<nA>>, TypeAlias(nS, UnionBA)),
      Item(<<nA>>, TypeAlias(nP, KeywordType)),
      Item(<<nA>>, Interface(nI, <<PropertySignature(nP, TRUE, UnionAB)>>)),
      Item(<<nA>>, Interface(nI, <<PropertySignature(<<"q">>, TRUE,
                                        QualifiedReference(<<nA, nS>>)),
                                   PropertySignature(<<"r">>, TRUE,
                                        QualifiedReference(<<nA, nP>>))>>)),
      Item(<<nB>>, Interface(nI, <<PropertySignature(<<"q">>, TRUE,
                                        QualifiedReference(<<nA, nP>>))>>)) }

SpecQualified ==
    InitWith(FileLists(QualifiedItems), OptionSet, SiblingSchemaLists) /\ [][Next]_vars

\* the same machine over documents with root-level declarations
SpecRoot == InitWith(FileLists(RootItems), OptionSet, SchemaLists) /\ [][Next]_vars

\* the same machine over documents with namespaces two deep
SpecNested ==
    InitWith(FileLists(NestedItems), OptionSet, SiblingSchemaLists) /\ [][Next]_vars

-----------------------------------------------------------------------------
(* Reading a document: its declarations, and what a type reference names *)

\* the declarations of the document being transformed and of its output,
\* each with the namespaces that enclose it
InItems == FlatStatements(sourceFile, <<>>)
OutItems == FlatStatements(out, <<>>)

Indices(items) == 1..Len(items)
IsInterfaceItem(item) == item.stmt.k = "interface"
Interfaces(items) == SelectSeq(items, IsInterfaceItem)
IsPromotableAlias(item) == item.stmt.k = "alias" /\ IsStringUnion(item.stmt.type)
IsEnumItem(item) == item.stmt.k = "enum"

ValueSet(type) == {LiteralValues(type)[i] : i \in 1..Len(type.types)}
EnumValueSet(enum) == {enum.members[i].value : i \in 1..Len(enum.members)}

\* sibling namespaces: the same parent, another name
AreSiblings(p, q) ==
    /\ Len(p) > 0
    /\ Len(p) = Len(q)
    /\ SubSeq(p, 1, Len(p) - 1) = SubSeq(q, 1, Len(q) - 1)
    /\ p # q

Transformed == phase = "done"
StrategyAll == EnumStrategyOf(options.opts) = "all"
StrategySchema == EnumStrategyOf(options.opts) = "schema"

\* TypeScript name lookup: the innermost enclosing scope that declares the
\* first name of the reference decides; the result is the set of
\* declarations of one kind the reference then names
TypeParts(type) == IF type.k = "ref" THEN <<type.name>> ELSE type.parts
Enclosing(scope) == {SubSeq(scope, 1, n) : n \in 0..Len(scope)}
DeclaresFirst(items, p, parts) ==
    IF Len(parts) = 1
    THEN \E i \in Indices(items) : items[i].ns = p /\ items[i].stmt.name = parts[1]
    ELSE \E i \in Indices(items) : IsPrefixOf(Append(p, parts[1]), items[i].ns)
Named(items, type, scope, kind) ==
    IF type.k \notin {"ref", "qref"} THEN {}
    ELSE LET parts == TypeParts(type)
             found == {p \in Enclosing(scope) : DeclaresFirst(items, p, parts)}
         IN  IF found = {} THEN {}
             ELSE LET p == CHOOSE q \in found : \A r \in found : Len(r) <= Len(q)
                      target == p \o SubSeq(parts, 1, Len(parts) - 1)
                  IN  {i \in Indices(items) :
                          /\ items[i].stmt.k = kind
                          /\ items[i].ns = target
                          /\ items[i].stmt.name = parts[Len(parts)]}
Resolve(items, type, scope) == Named(items, type, scope, "enum")

\* the properties of the document, in order, each with its input type,
\* its output type and its scope: interfaces are neither added, removed
\* nor reordered by the passes
Properties ==
    LET ins == Interfaces(InItems)
        outs == Interfaces(OutItems)
    IN  IF Len(ins) # Len(outs) THEN {}
        ELSE UNION {{[scope |-> ins[i].ns,
                      isIdentifier |-> ins[i].stmt.members[m].isIdentifier,
                      before |-> ins[i].stmt.members[m].type,
                      after |-> outs[i].stmt.members[m].type] :
                        m \in 1..Len(ins[i].stmt.members)} : i \in 1..Len(ins)}

\* the promotable alias of the document that a simple reference made in
\* scope names
LocalAlias(prop) ==
    {i \in Indices(InItems) :
        /\ prop.before.k = "ref"
        /\ IsPromotableAlias(InItems[i])
        /\ InItems[i].ns = prop.scope
        /\ InItems[i].stmt.name = prop.before.name}

EnumsIn(ns) == {i \in Indices(OutItems) : IsEnumItem(OutItems[i]) /\ OutItems[i].ns = ns}

-----------------------------------------------------------------------------
(* Claims about sibling namespaces, checked under Spec *)

\* two sibling namespaces each declare a string-literal union of one name
Collide(i, j) ==
    /\ IsPromotableAlias(InItems[i])
    /\ IsPromotableAlias(InItems[j])
    /\ AreSiblings(InItems[i].ns, InItems[j].ns)
    /\ InItems[i].stmt.name = InItems[j].stmt.name

SameValues(i, j) == ValueSet(InItems[i].stmt.type) = ValueSet(InItems[j].stmt.type)

\* C3: when two sibling namespaces each declare a string-literal union
\* with the same name but different value sets, each namespace holds an
\* enum declaration of that name, and after the whole transformation every
\* property that referred to its namespace's own union names the enum of
\* its own namespace, never the enum of the other namespace.
C3_NamespaceIsolation ==
    (Transformed /\ StrategyAll) =>
        \A i, j \in Indices(InItems) :
            (Collide(i, j) /\ ~SameValues(i, j)) =>
                /\ \E e \in EnumsIn(InItems[i].ns) :
                        OutItems[e].stmt.name = toPascalCase(InItems[i].stmt.name)
                /\ \A prop \in Properties :
                        i \in LocalAlias(prop) =>
                            /\ Resolve(OutItems, prop.after, prop.scope) # {}
                            /\ Resolve(OutItems, prop.after, prop.scope)
                                    \subseteq EnumsIn(prop.scope)

\* C4: when two sibling namespaces each declare a string-literal union
\* with identical value sets, the output holds exactly one enum declaration
\* for that value set, in the first-discovered namespace, and the
\* properties of both namespaces name that declaration, unqualified inside
\* the owning namespace and namespace-qualified outside it.
C4_ValueSetDedup ==
    (Transformed /\ StrategyAll) =>
        \A i, j \in Indices(InItems) :
            (/\ i < j
             /\ IsPromotableAlias(InItems[i])
             /\ IsPromotableAlias(InItems[j])
             /\ AreSiblings(InItems[i].ns, InItems[j].ns)
             /\ SameValues(i, j)
             /\ \A h \in 1..(i - 1) :
                    IsPromotableAlias(InItems[h]) => ~SameValues(h, i)) =>
                LET decls == {e \in Indices(OutItems) :
                                /\ IsEnumItem(OutItems[e])
                                /\ EnumValueSet(OutItems[e].stmt)
                                        = ValueSet(InItems[i].stmt.type)}
                IN  /\ Cardinality(decls) = 1
                    /\ decls \subseteq EnumsIn(InItems[i].ns)
                    /\ \A prop \in Properties :
                            (i \in LocalAlias(prop) \/ j \in LocalAlias(prop)) =>
                                /\ Resolve(OutItems, prop.after, prop.scope) = decls
                                /\ (prop.after.k = "ref") = (prop.scope = InItems[i].ns)

\* C5: under strategy 'all', when two sibling namespaces each declare a
\* same-named string-literal union with the same values, an enum
\* declaration is emitted inside each of the two namespaces and each
\* property that referred to its namespace's union names the enum by its
\* unqualified local name.
C5_SameNameSameValues ==
    (Transformed /\ StrategyAll) =>
        \A i, j \in Indices(InItems) :
            (Collide(i, j) /\ SameValues(i, j)) =>
                /\ \E e \in EnumsIn(InItems[i].ns) :
                        OutItems[e].stmt.name = toPascalCase(InItems[i].stmt.name)
                /\ \A prop \in Properties :
                        i \in LocalAlias(prop) =>
                            prop.after = TypeReference(toPascalCase(InItems[i].stmt.name))

\* C8: at the start of each application of the transformer to a document
\* the value-set index, the path index and the processed set hold nothing
\* left by a previously transformed document.
C8_NoLeakBetweenDocuments ==
    phase = "start" =>
        /\ enumsByValues = <<>>
        /\ enumsByPath = <<>>
        /\ processedEnums = {}

-----------------------------------------------------------------------------
(* Claims about root-level declarations, checked under SpecRoot *)

\* the lower-cased property names of the input-schema nodes of shape
\* { type: 'string', enum: [...] }
RECURSIVE AuthoredNames(_)
AuthoredNames(content) ==
    LET entries == Entries(content)
    IN  UNION {(IF IsObject(entries[i].val) /\ IsEnumDefinition(entries[i].val)
                THEN {toLowerCase(entries[i].key)} ELSE {})
               \cup AuthoredNames(entries[i].val) : i \in 1..Len(entries)}

SchemaAuthored(name) ==
    \E s \in 1..Len(host.inputSchemas) :
        toLowerCase(name) \in AuthoredNames(host.inputSchemas[s])

\* C1: under strategy 'schema', a type alias that is a union of string
\* literals is converted to an enum only if its name equals, without
\* regard to case, the property name of an input-schema node of shape
\* { type: 'string', enum: [...] }; every other string-literal-union alias
\* of the document remains a type alias in the output.
C1_SchemaPromotesOnlyAuthored ==
    (Transformed /\ StrategySchema) =>
        \A i \in Indices(InItems) :
            (IsPromotableAlias(InItems[i]) /\ ~SchemaAuthored(InItems[i].stmt.name)) =>
                \E o \in Indices(OutItems) : OutItems[o] = InItems[i]

\* C2: under strategy 'all', every type alias whose type is a union made
\* only of string literals, at the root or inside namespaces, no longer
\* appears as a type alias in the output, and an enum declaration for it
\* (its name in PascalCase, its values) appears in its place.
C2_AllPromotesEveryAlias ==
    (Transformed /\ StrategyAll) =>
        \A i \in Indices(InItems) :
            IsPromotableAlias(InItems[i]) =>
                /\ ~\E o \in Indices(OutItems) :
                        /\ OutItems[o].stmt.k = "alias"
                        /\ OutItems[o].ns = InItems[i].ns
                        /\ OutItems[o].stmt.name = InItems[i].stmt.name
                /\ \E e \in EnumsIn(InItems[i].ns) :
                        /\ OutItems[e].stmt.name = toPascalCase(InItems[i].stmt.name)
                        /\ EnumValueSet(OutItems[e].stmt)
                                = ValueSet(InItems[i].stmt.type)

\* a promotable alias of the input that is no longer an alias of the output
IsPromotedAlias(i) ==
    /\ IsPromotableAlias(InItems[i])
    /\ ~\E o \in Indices(OutItems) :
            /\ OutItems[o].stmt.k = "alias"
            /\ OutItems[o].ns = InItems[i].ns
            /\ OutItems[o].stmt.name = InItems[i].stmt.name

\* the property's input type was a promotable string-literal union (under
\* 'all', of a property the first pass names an enum after) or a
\* reference, simple or qualified, to a promoted alias
WasPromotable(prop) ==
    \/ StrategyAll /\ IsStringUnion(prop.before) /\ prop.isIdentifier
    \/ \E i \in Named(InItems, prop.before, prop.scope, "alias") : IsPromotedAlias(i)

\* C6: for every property whose type in the input was a promotable
\* string-literal union or a reference to a promoted alias, the property's
\* type in the output resolves, from the property's scope, to exactly one
\* enum declaration that is present in the output tree.
C6_NoDanglingReferences ==
    Transformed =>
        \A prop \in Properties :
            WasPromotable(prop) =>
                Cardinality(Resolve(OutItems, prop.after, prop.scope)) = 1

\* C7: under strategy 'all', the output tree holds no property signature
\* whose type is still a union made only of string literals.
C7_NoInlineUnionLeft ==
    (Transformed /\ StrategyAll) =>
        \A prop \in Properties : ~IsStringUnion(prop.after)

-----------------------------------------------------------------------------
(* Claims about member casing, checked under SpecCasing *)

\* a word with its first letter in upper case
Capitalized(word) == <<UpperChar(Head(word))>> \o Tail(word)

\* C10: with consistentEnumCasing 'pascal', the member key and the member
\* value are both the PascalCase form of the raw value, its words
\* capitalized and joined without separators: 'foo bar' generates the
\* member FooBar = 'FooBar'.
C10_PascalJoinsWords ==
    (casingOut.done /\ casingIn.policy = "pascal") =>
        \A w1, w2 \in CasingWords :
            \A sep \in WordSeparators :
                casingIn.value = w1 \o sep \o w2 =>
                    /\ casingOut.enumKey = Capitalized(w1) \o Capitalized(w2)
                    /\ casingOut.enumValue = Capitalized(w1) \o Capitalized(w2)

FooBar == <<"f", "o", "o", " ", "b", "a", "r">>

\* C11: when consistentEnumCasing is not given, for every raw value the
\* emitted enum member's value is the raw value unchanged and the member's
\* key is the pascal-case transform of the raw value.
C11_DefaultCasing ==
    (casingMember.done /\ casingIn.policy = Absent) =>
        /\ casingMember.member.value = casingIn.value
        /\ casingMember.member.key = toPascalCase(casingIn.value)

\* one character as the claim of C12 transforms it: a character outside
\* [a-zA-Z0-9_] becomes '_', a letter takes the wanted case
SnakeChar(c, upper) ==
    IF IsLower(c) THEN (IF upper THEN Uppers[IndexIn(c, Lowers)] ELSE c)
    ELSE IF IsUpper(c) THEN (IF upper THEN c ELSE Lowers[IndexIn(c, Uppers)])
    ELSE IF IsDigit(c) \/ c = "_" THEN c
    ELSE "_"
Snake(value, upper) == [i \in 1..Len(value) |-> SnakeChar(value[i], upper)]

C13_CasingIdempotent ==
    (casingAgain.done /\ casingIn.policy \in {"upper", "lower", "pascal"}) =>
        /\ casingAgain.enumKey = casingOut.enumKey
        /\ casingAgain.enumValue = casingOut.enumValue

-----------------------------------------------------------------------------
(* Claims about nested namespaces, checked under SpecNested *)

\* the type references of the output's properties, each with its scope
OutReferences ==
    LET outs == Interfaces(OutItems)
    IN  UNION {{[scope |-> outs[i].ns, type |-> outs[i].stmt.members[m].type] :
                    m \in {n \in 1..Len(outs[i].stmt.members) :
                            outs[i].stmt.members[n].type.k \in {"ref", "qref"}}} :
               i \in 1..Len(outs)}

\* an enum declaration of that name stands in that namespace of the output
EnumNamed(name, ns) ==
    \E e \in EnumsIn(ns) : OutItems[e].stmt.name = name

RefName(type) == TypeParts(type)[Len(TypeParts(type))]
RefPath(type) == SubSeq(TypeParts(type), 1, Len(TypeParts(type)) - 1)

\* the reference names an enum of the output that is declared in a namespace
RefersToNamespacedEnum(r) ==
    /\ \E e \in Indices(OutItems) :
            /\ IsEnumItem(OutItems[e])
            /\ OutItems[e].stmt.name = RefName(r.type)
    /\ ~(r.type.k = "ref" /\ EnumNamed(r.type.name, <<>>))

\* C14: after the final pass, every reference to an enum in the output tree
\* is namespace-qualified if and only if the namespace path of the
\* reference site differs from the namespace path in which the referenced
\* enum is declared, at every nesting depth: an unqualified reference has
\* its enum in its own namespace, a qualified one names the other
\* namespace in which the enum stands.  (Stated for the enums declared in
\* a namespace.)
C14_QualifiedIffElsewhere ==
    Transformed =>
        \A r \in OutReferences :
            RefersToNamespacedEnum(r) =>
                IF r.type.k = "ref"
                THEN EnumNamed(r.type.name, r.scope)
                ELSE /\ EnumNamed(RefName(r.type), RefPath(r.type))
                     /\ RefPath(r.type) # r.scope

\* the EnumIdentity entries of the registry: one per value set
Identities == {enumsByValues[i].val : i \in 1..Len(enumsByValues)}

\* the declarations of the output that an identity was emitted as
DeclarationsOf(identity) ==
    {e \in Indices(OutItems) :
        /\ IsEnumItem(OutItems[e])
        /\ OutItems[e].stmt.name = identity.pascalCaseName
        /\ [m \in 1..Len(OutItems[e].stmt.members) |-> OutItems[e].stmt.members[m].value]
                = identity.values}

\* C15: in one transformation run the declaration of each EnumIdentity is
\* emitted at most once in the output tree, be it by the namespace-entry
\* emission or by in-place replacement of an alias.
C15_EmittedAtMostOnce ==
    Transformed =>
        \A identity \in Identities : Cardinality(DeclarationsOf(identity)) <= 1

\* the candidates of the document under the active strategy, each as the
\* dot-joined names of its enclosing namespaces and its declared name
CandidatePaths ==
    {FullPath(InItems[i].ns, InItems[i].stmt.name) :
        i \in {j \in Indices(InItems) : IsPromotableAlias(InItems[j])}}
    \cup UNION {{FullPath(InItems[i].ns, InItems[i].stmt.members[m].name) :
                    m \in {n \in 1..Len(InItems[i].stmt.members) :
                            IsStringUnion(InItems[i].stmt.members[n].type)}} :
                i \in {j \in Indices(InItems) : IsInterfaceItem(InItems[j])}}

Collected == phase \in {"start", "collect"} /\ calls = <<>>

\* C16: after the Collection pass every key of the path index is the
\* dot-joined sequence of all namespace names that enclose some candidate,
\* outermost first, followed by the candidate's declared name; no candidate
\* is registered under a path that omits an enclosing namespace.
C16_PathIndexKeys ==
    Collected =>
        \A k \in 1..Len(enumsByPath) : enumsByPath[k].key \in CandidatePaths

\* C17: on entering a namespace body an identity's enum declaration is
\* emitted only if the identity's namespacePath equals the path of the
\* entered namespace element by element and in the same order: an enum
\* declaration in a namespace in which no alias was replaced belongs to an
\* identity owned by exactly that namespace.
C17_EmissionNeedsSamePath ==
    Transformed =>
        \A identity \in Identities :
            \A e \in DeclarationsOf(identity) :
                (~\E i \in Indices(InItems) :
                    IsPromotableAlias(InItems[i]) /\ InItems[i].ns = OutItems[e].ns) =>
                        identity.namespacePath = OutItems[e].ns

-----------------------------------------------------------------------------
(* Claims on the registry under sequences of registerEnum calls *)

SetOf(values) == {values[i] : i \in 1..Len(values)}

\* C18: after any sequence of registerEnum calls there is at most one
\* EnumIdentity per value set, and every path that was registered with a
\* union of that value set maps in the path index to that one identity,
\* whatever the order of the literals, the source name or the namespace.
C18_OneIdentityPerValueSet ==
    /\ \A i, j \in 1..Len(enumsByValues) :
            SetOf(enumsByValues[i].val.values) = SetOf(enumsByValues[j].val.values)
                => i = j
    /\ \A k \in 1..Len(registered) :
            LET fullPath == FullPath(registered[k].namespacePath, registered[k].name)
                valuesKey == ValuesKey(registered[k].values)
            IN  /\ MapHas(enumsByPath, fullPath)
                /\ MapHas(enumsByValues, valuesKey)
                /\ MapGet(enumsByPath, fullPath) = MapGet(enumsByValues, valuesKey)

\* C19: in every reachable registry state two distinct EnumIdentity entries
\* have the same displayName only if their namespacePaths differ.
C19_SameNameOtherNamespace ==
    \A a, b \in Identities :
        (a # b /\ a.pascalCaseName = b.pascalCaseName)
            => a.namespacePath # b.namespacePath

-----------------------------------------------------------------------------
(* Claims on the ownership of an identity during the collection pass *)

\* the registerEnum calls of the collection pass over the current document,
\* in its pre-order, and the first of them with a given value set
AllCalls ==
    CollectStatements(sourceFile, <<>>, EnumStrategyOf(options.opts), schemaDefinedEnums)

FirstWith(valuesKey) ==
    AllCalls[CHOOSE j \in 1..Len(AllCalls) :
                /\ ValuesKey(AllCalls[j].values) = valuesKey
                /\ \A i \in 1..(j - 1) : ValuesKey(AllCalls[i].values) # valuesKey]

\* C20: the canonical identity of a value set takes its displayName and its
\* owning namespacePath from the first candidate with that value set in
\* the pre-order of the collection pass, and registrations of the value set
\* made later never change them: at every point of the collection pass the
\* identity of each value set registered so far has the displayName,
\* namespacePath and fullPath of the first candidate with that value set.
C20_FirstCandidateOwns ==
    phase \in {"start", "collect"} =>
        \A k \in 1..(Len(AllCalls) - Len(calls)) :
            LET valuesKey == ValuesKey(AllCalls[k].values)
                first == FirstWith(valuesKey)
            IN  /\ MapHas(enumsByValues, valuesKey)
                /\ MapGet(enumsByValues, valuesKey).pascalCaseName
                        = toPascalCase(first.name)
                /\ MapGet(enumsByValues, valuesKey).namespacePath
                        = first.namespacePath
                /\ MapGet(enumsByValues, valuesKey).fullPath
                        = FullPath(first.namespacePath, first.name)

-----------------------------------------------------------------------------
(* Claims on repeated registrations *)

\* the triple of the registerEnum call made by this step was registered before
RepeatedCall ==
    /\ registered' # registered
    /\ \E k \in 1..Len(registered) : registered[k] = registered'[Len(registered')]

\* C21: registerEnum is idempotent: registering a (name, values,
\* namespacePath) triple that was already registered earlier in the run
\* leaves the value-set index, the path index and the name registry as they
\* were before the repeated call.
C21_RegisterIdempotent ==
    [][RepeatedCall => UNCHANGED <<enumsByValues, enumsByPath, enumRegistry>>]_vars

-----------------------------------------------------------------------------
(* Claims on the schema enum extractor *)

\* a schema value that holds itself somewhere
RECURSIVE IsCyclic(_)
IsCyclic(x) ==
    CASE x = JSelf -> TRUE
      [] x.k = "obj" -> \E i \in 1..Len(x.entries) : IsCyclic(x.entries[i].val)
      [] x.k = "arr" -> \E i \in 1..Len(x.items) : IsCyclic(x.items[i])
      [] OTHER -> FALSE

Extracted == extraction # "idle"

\* C22: the schema enum extractor never throws: for every finite acyclic
\* schema value, with any expected field missing or of an unexpected type,
\* extraction runs to completion.
C22_ExtractorNeverThrows ==
    (Extracted /\ \A s \in 1..Len(host.inputSchemas) : ~IsCyclic(host.inputSchemas[s]))
        => extraction = "done"

\* the nodes of a schema value that sit under a key of an object, each with
\* that key
RECURSIVE KeyedNodes(_)
KeyedNodes(x) ==
    CASE x.k = "obj" ->
            {Entry(x.entries[i].key, x.entries[i].val) : i \in 1..Len(x.entries)}
            \cup UNION {KeyedNodes(x.entries[i].val) : i \in 1..Len(x.entries)}
      [] x.k = "arr" -> UNION {KeyedNodes(x.items[i]) : i \in 1..Len(x.items)}
      [] OTHER -> {}

\* C23: after an extraction that ran to completion, for every node of an
\* input schema that has type 'string' and an array-valued enum and sits
\* under a key, the lower-cased key is in schemaDefinedEnums, wherever the
\* node is nested (also under keys that are siblings of a 'properties' key).
C23_EveryEnumNodeNamed ==
    extraction = "done" =>
        \A s \in 1..Len(host.inputSchemas) :
            \A n \in KeyedNodes(host.inputSchemas[s]) :
                (n.val.k = "obj" /\ IsEnumDefinition(n.val))
                    => toLowerCase(n.key) \in schemaDefinedEnums

\* C24: the extraction walk terminates on every input schema, also on a
\* self-referential one: it never recurses until the call stack is
\* exhausted.
C24_WalkTerminates == extraction # "RangeError"

-----------------------------------------------------------------------------
(* Claims on unions of no member and of one member, checked under SpecEdge *)

\* the aliases of the document whose union has n members, all of them
\* string literals
AliasesOfSize(n) ==
    {i \in Indices(InItems) :
        /\ InItems[i].stmt.k = "alias"
        /\ InItems[i].stmt.type.k = "union"
        /\ Len(InItems[i].stmt.type.types) = n
        /\ \A m \in 1..n : InItems[i].stmt.type.types[m].k = "lit"}

IsRegistered(i) ==
    /\ MapHas(enumsByPath, FullPath(InItems[i].ns, InItems[i].stmt.name))
    /\ MapHas(enumsByValues, ValuesKey(LiteralValues(InItems[i].stmt.type)))

StaysAlias(i) ==
    \E o \in Indices(OutItems) :
        /\ OutItems[o].stmt.k = "alias"
        /\ OutItems[o].ns = InItems[i].ns
        /\ OutItems[o].stmt.name = InItems[i].stmt.name

-----------------------------------------------------------------------------
(* Claims on what the passes leave alone, checked under SpecQualified *)

\* the qualified references of the document whose dotted path is no key of
\* the path index
UnknownQualified ==
    {p \in Properties :
        p.before.k = "qref" /\ ~MapHas(enumsByPath, Join(p.before.parts))}

PassedThrough == \A p \in UnknownQualified : p.after = p.before

\* C26: a namespace-qualified type reference whose dotted path is not a key
\* of the path index is left unmodified by both the rewrite pass and the
\* final pass: when the final pass returns, the output holds the same
\* qualified reference.
C26_UnknownQualifiedUnchanged == [][FinalPass => PassedThrough']_vars

\* the passes are over on a document with a qualified reference they do not
\* know, which stands in the output, and one they know, which they rewrote
C26_Witness ==
    /\ Transformed
    /\ \E p \in UnknownQualified : p.after = p.before
    /\ \E p \in Properties :
            /\ p.before.k = "qref"
            /\ MapHas(enumsByPath, Join(p.before.parts))
            /\ p.after # p.before

\* the alias is selected by the active strategy
IsSelected(i) ==
    \/ StrategyAll
    \/ isSchemaDefinedEnum(schemaDefinedEnums, InItems[i].stmt.name,
                           LiteralValues(InItems[i].stmt.type))

\* C28: a type alias that is not promotable (its type is not a union made
\* only of string literals, or the active strategy does not select it) is
\* never removed from the output: it stands in the output, in its
\* namespace, under its name.
C28_OtherAliasesKept ==
    Transformed =>
        \A i \in Indices(InItems) :
            (/\ InItems[i].stmt.k = "alias"
             /\ (~IsStringUnion(InItems[i].stmt.type) \/ ~IsSelected(i)))
                => StaysAlias(i)

-----------------------------------------------------------------------------
(* Claims on the members of the emitted enums, checked under Spec *)

\* the string-literal unions written in the document, those of aliases and
\* those of properties
SourceUnions ==
    {InItems[i].stmt.type :
        i \in {j \in Indices(InItems) : IsPromotableAlias(InItems[j])}}
    \cup UNION {{InItems[i].stmt.members[m].type :
                    m \in {n \in 1..Len(InItems[i].stmt.members) :
                            IsStringUnion(InItems[i].stmt.members[n].type)}} :
                i \in {j \in Indices(InItems) : IsInterfaceItem(InItems[j])}}

MemberValues(enum) == [m \in 1..Len(enum.members) |-> enum.members[m].value]

\* C27: the members of every emitted enum appear in ascending
\* lexicographic order of their raw values, one member per literal of a
\* union of the source, whatever the order in which the literals were
\* written.
C27_MembersSorted ==
    \A e \in Indices(OutItems) :
        IsEnumItem(OutItems[e]) =>
            LET values == MemberValues(OutItems[e].stmt)
            IN  /\ \A m \in 1..(Len(values) - 1) : ~StrLess(values[m + 1], values[m])
                /\ \E union \in SourceUnions :
                        /\ Len(union.types) = Len(values)
                        /\ ValueSet(union) = SetOf(values)

\* an enum was emitted for a union whose literals were written in
\* descending order
C27_Witness ==
    /\ Transformed
    /\ UnionBA \in SourceUnions
    /\ \E e \in Indices(OutItems) :
            /\ IsEnumItem(OutItems[e])
            /\ MemberValues(OutItems[e].stmt) = <<<<"a">>, <<"b">>>>

-----------------------------------------------------------------------------
(* Claims on the values an alias is replaced with, checked under SpecRoot *)

\* the enum declarations that stand in the output where the alias stood:
\* in its namespace, under the PascalCase form of its name
ReplacementsOf(i) ==
    {e \in EnumsIn(InItems[i].ns) :
        OutItems[e].stmt.name = toPascalCase(InItems[i].stmt.name)}

\* C29: whenever a promotable type alias is replaced by an enum
\* declaration, the member values of that declaration are exactly the
\* string literals of the alias's own union; a root-level alias is never
\* replaced by an enum that carries the values of a same-named union
\* declared inside a namespace.
C29_OwnValues ==
    Transformed =>
        \A i \in Indices(InItems) :
            (IsPromotableAlias(InItems[i]) /\ ~StaysAlias(i)) =>
                \A e \in ReplacementsOf(i) :
                    EnumValueSet(OutItems[e].stmt) = ValueSet(InItems[i].stmt.type)

-----------------------------------------------------------------------------
(* Claims on member keys, checked under SpecKeys *)

\* C30: within one emitted enum declaration distinct raw values yield
\* distinct member keys under every casing policy (value, upper, lower,
\* pascal and unspecified): no emitted enum has two members with the same
\* key.
C30_DistinctMemberKeys ==
    Transformed =>
        \A e \in Indices(OutItems) :
            IsEnumItem(OutItems[e]) =>
                LET members == OutItems[e].stmt.members
                IN  \A m, n \in 1..Len(members) :
                        m # n => members[m].key # members[n].key

====
